---- MODULE Spec2Model ----
(***************************************************************************)
(* jw: a command-line helper that manages jujutsu workspaces.              *)
(*                                                                         *)
(* Strings are sequences of one-character strings, paths are sequences of  *)
(* path segments (the empty path is the filesystem root "/").  The state   *)
(* is what survives between two invocations of the CLI: the workspace      *)
(* directories on disk, the workspaces the external tool has registered,   *)
(* and the configuration document.  Every invocation is one action; the    *)
(* external commands it spawns, what it prints and how it ends are         *)
(* recorded in `last` until the process exits.                             *)
(***************************************************************************)
EXTENDS Integers, Sequences, FiniteSets, TLC

VARIABLES
  dirs,             \* directory name under the container |-> workspace checked out in it
  containerExists,  \* whether the container directory exists on disk
  registry,         \* the workspace names the external tool has registered
  config,           \* the configuration document loaded by loadConfig()
  last,             \* the running invocation: inputs, spawned commands, output, outcome
  hist,             \* summary of the invocation that ran before `last`
  probe             \* a path-resolving function applied to a directory tree, and its result

vars == <<dirs, containerExists, registry, config, last, hist, probe>>

----------------------------------------------------------------------------
\* Bounds of the model

MaxCopyFiles == 3
MaxPostCreateCommands == 2

----------------------------------------------------------------------------
\* Program constants

DEFAULT_WORKSPACE_NAME == <<"d", "e", "f", "a", "u", "l", "t">>
WORKSPACES_DIR_SUFFIX == <<"_", "_", "w", "s">>
JJ_DIR == <<".", "j", "j">>
REPO_ENTRY == <<"r", "e", "p", "o">>

----------------------------------------------------------------------------
\* The part of the filesystem the program does not change

HomeDir == << <<"h">> >>
DefaultRoot == Append(HomeDir, <<"r">>)
DefaultSubDir == Append(DefaultRoot, <<"s">>)
OutsideDir == << <<"t">> >>
\* untracked entries of the default workspace that a configuration may name
UntrackedFile == Append(DefaultRoot, <<"e">>)
UntrackedDir == Append(DefaultRoot, <<"f">>)

\* Inputs
Names == { DEFAULT_WORKSPACE_NAME, <<"a">>, <<"a", "/", "b">>, <<"a", "-", "b">> }
Revisions == { <<>>, <<"@">> }
AllCopyFiles == << <<"e">>, <<"f">>, <<"g">>, <<"h">> >>
AllPostCreateCommands ==
  << <<"x", " ", "i">>, <<"y", " ", " ", "j">>, <<"z">>, <<"w", "\t", "t">> >>
StdErr == <<"b", "o", "o", "m">>
ExecResults == { [exitCode |-> 0, stderr |-> <<>>], [exitCode |-> 1, stderr |-> StdErr] }

Min(a, b) == IF a < b THEN a ELSE b

----------------------------------------------------------------------------
\* node:path

dirname(p) == IF Len(p) = 0 THEN p ELSE SubSeq(p, 1, Len(p) - 1)
basename(p) == IF Len(p) = 0 THEN <<>> ELSE p[Len(p)]
join(p, s) == IF s = <<>> THEN p ELSE Append(p, s)

----------------------------------------------------------------------------
\* Results of operations that can throw

Ok(p) == [ok |-> TRUE, path |-> p, error |-> "", operation |-> "", detail |-> <<>>]
Err(kind, operation, detail) ==
  [ok |-> FALSE, path |-> <<>>, error |-> kind, operation |-> operation, detail |-> detail]

----------------------------------------------------------------------------
\* node:fs over the modelled filesystem

ContainerOnDisk ==
  join(dirname(DefaultRoot), basename(DefaultRoot) \o WORKSPACES_DIR_SUFFIX)
WorkspaceDirsOnDisk == { join(ContainerOnDisk, d) : d \in DOMAIN dirs }
RepoEntryOf(root) == join(join(root, JJ_DIR), REPO_ENTRY)

isDirectory(p) ==
  \/ \E n \in 0..Len(DefaultRoot) : p = SubSeq(DefaultRoot, 1, n)
  \/ p \in {DefaultSubDir, OutsideDir, UntrackedDir}
  \/ p \in {join(DefaultRoot, JJ_DIR), RepoEntryOf(DefaultRoot)}
  \/ p = ContainerOnDisk /\ containerExists
  \/ p \in WorkspaceDirsOnDisk
  \/ \E w \in WorkspaceDirsOnDisk : p = join(w, JJ_DIR)

isPointerFile(p) == \E w \in WorkspaceDirsOnDisk : p = RepoEntryOf(w)

existsSync(p) == isDirectory(p) \/ isPointerFile(p) \/ p = UntrackedFile

\* variant: the pointer file of a secondary workspace names its own .jj/repo
readFileSyncOwnEntry(p) == p
\* content of the .jj/repo pointer file of a secondary workspace
readFileSync(p) == RepoEntryOf(DefaultRoot)

----------------------------------------------------------------------------
\* utils.ts

\* variant: only the first slash is replaced
normalizeWorkspaceNameFirstOnly(name) ==
  [i \in 1..Len(name) |->
     IF name[i] = "/" /\ \A j \in 1..(i - 1) : name[j] # "/" THEN "-" ELSE name[i]]
normalizeWorkspaceName(name) ==
  [i \in 1..Len(name) |-> IF name[i] = "/" THEN "-" ELSE name[i]]

RECURSIVE getRepoRootFrom(_)
getRepoRootFrom(currentDir) ==
  IF currentDir = <<>>
  THEN Err("NotJujutsuRepositoryError", "", <<>>)
  ELSE IF existsSync(join(currentDir, JJ_DIR))
       THEN Ok(currentDir)
       ELSE getRepoRootFrom(dirname(currentDir))

getRepoRoot(cwd) == getRepoRootFrom(cwd)

\* getDefaultWorkspacePath once getRepoRoot() has returned
defaultWorkspacePathOf(currentWorkspaceRoot) ==
  IF ~currentWorkspaceRoot.ok THEN currentWorkspaceRoot
  ELSE IF ~existsSync(RepoEntryOf(currentWorkspaceRoot.path)) THEN Err("Error", "", <<>>)
  ELSE IF isDirectory(RepoEntryOf(currentWorkspaceRoot.path)) THEN currentWorkspaceRoot
  ELSE Ok(dirname(dirname(readFileSync(RepoEntryOf(currentWorkspaceRoot.path)))))

getDefaultWorkspacePath(cwd) == defaultWorkspacePathOf(getRepoRoot(cwd))

\* variant: an empty suffix is taken for an absent one
getWorkspacesDirNameEmptyAsAbsent(repoName, hasSuffix, suffix) ==
  repoName \o (IF hasSuffix /\ suffix # <<>> THEN suffix ELSE WORKSPACES_DIR_SUFFIX)
getWorkspacesDirName(repoName, hasSuffix, suffix) ==
  repoName \o (IF hasSuffix THEN suffix ELSE WORKSPACES_DIR_SUFFIX)

\* getWorkspacesDir once getDefaultWorkspacePath() has returned
workspacesDirOf(defaultPath, hasSuffix, suffix) ==
  IF ~defaultPath.ok THEN defaultPath
  ELSE Ok(join(dirname(defaultPath.path),
               getWorkspacesDirName(basename(defaultPath.path), hasSuffix, suffix)))

getWorkspacesDir(cwd, hasSuffix, suffix) ==
  workspacesDirOf(getDefaultWorkspacePath(cwd), hasSuffix, suffix)

\* getWorkspacePath once getWorkspacesDir() has returned
workspacePathOf(workspacesDir, name) ==
  IF ~workspacesDir.ok THEN workspacesDir ELSE Ok(join(workspacesDir.path, name))

getWorkspacePath(cwd, name, hasSuffix, suffix) ==
  workspacePathOf(getWorkspacesDir(cwd, hasSuffix, suffix), name)

----------------------------------------------------------------------------
\* Records of what an invocation did

\* a spawned command: execCommand(command, args, cwd) and the exit code it returned
Call(cmd, words, paths, cwd, exitCode) ==
  [cmd |-> cmd, words |-> words, paths |-> paths, cwd |-> cwd, exitCode |-> exitCode]
\* a line written with console.log or console.warn
Line(level, msg, words, paths) ==
  [level |-> level, msg |-> msg, words |-> words, paths |-> paths]
Steps(calls, out) == [calls |-> calls, out |-> out]

Outcome(r) == [ok |-> r.ok, error |-> r.error, operation |-> r.operation, detail |-> r.detail]
Success == Outcome(Ok(<<>>))

\* the filesystem and the tool's registry as an invocation finds them
Before == [dirs |-> dirs, containerExists |-> containerExists, registry |-> registry]

Invocation(op, cwd, args, outcome, steps) ==
  [op |-> op, cwd |-> cwd, args |-> args, outcome |-> outcome,
   calls |-> steps.calls, out |-> steps.out, before |-> Before]

----------------------------------------------------------------------------
\* String.prototype.split with a one-character separator

RECURSIVE split(_, _)
split(s, sep) ==
  IF \A i \in 1..Len(s) : s[i] # sep
  THEN << s >>
  ELSE LET k == CHOOSE i \in 1..Len(s) : s[i] = sep /\ \A j \in 1..(i - 1) : s[j] # sep
       IN  << SubSeq(s, 1, k - 1) >> \o split(SubSeq(s, k + 1, Len(s)), sep)

----------------------------------------------------------------------------
\* The external tool and the shell utilities: what a zero exit code means

\* The tool keeps one entry per name: it refuses to add a name that is registered, and
\* it renames the workspace checked out in its working directory, refusing when that
\* workspace is not registered or the new name is taken.
JjAddAccepts(reg, name) == name \notin reg
JjRenameAccepts(reg, from, to) == from \in reg /\ to \notin reg
JjWorkspaceAdd(reg, name) == reg \cup {name}
JjWorkspaceForget(reg, name) == reg \ {name}
JjWorkspaceRename(reg, from, to) == (reg \ {from}) \cup {to}

\* `jj workspace add` creates the directory, `rm -rf` deletes it, `mv` moves it with the
\* workspace checked out in it, `jj workspace rename` renames the workspace checked out
HeldName(d, at) == IF at \in DOMAIN d THEN d[at] ELSE <<>>
DirsWith(d, name) == [x \in DOMAIN d \cup {name} |-> IF x = name THEN name ELSE d[x]]
DirsWithout(d, name) == [x \in DOMAIN d \ {name} |-> d[x]]
DirsMoved(d, from, to) ==
  [x \in (DOMAIN d \ {from}) \cup {to} |-> IF x = to THEN d[from] ELSE d[x]]
DirsRenamed(d, at, to) == [x \in DOMAIN d |-> IF x = at THEN to ELSE d[x]]

----------------------------------------------------------------------------
\* String helpers and the workspace-listing parser of utils.ts

IsSpace(c) == c \in {" ", "\n", "\t"}

RECURSIVE trimStart(_)
trimStart(s) == IF s # <<>> /\ IsSpace(Head(s)) THEN trimStart(Tail(s)) ELSE s
RECURSIVE trimEnd(_)
trimEnd(s) ==
  IF s # <<>> /\ IsSpace(s[Len(s)]) THEN trimEnd(SubSeq(s, 1, Len(s) - 1)) ELSE s
trim(s) == trimEnd(trimStart(s))

\* zero-based index of the first occurrence, -1 when there is none
indexOf(s, c) ==
  IF \A i \in 1..Len(s) : s[i] # c THEN -1
  ELSE (CHOOSE i \in 1..Len(s) : s[i] = c /\ \A j \in 1..(i - 1) : s[j] # c) - 1

\* s.substring(from, to) with 0 <= from <= to <= s.length
substring(s, from, to) == SubSeq(s, from + 1, to)

\* variant: the colon test off by one
parseLineNameLongOnly(line) ==
  LET colonIndex == indexOf(line, ":")
  IN  IF colonIndex > 1 THEN << trim(substring(line, 0, colonIndex)) >> ELSE <<>>
parseLineName(line) ==
  LET colonIndex == indexOf(line, ":")
  IN  IF colonIndex > 0 THEN << trim(substring(line, 0, colonIndex)) >> ELSE <<>>

RECURSIVE FlatMap(_, _)
FlatMap(lines, i) ==
  IF i > Len(lines) THEN <<>> ELSE parseLineName(lines[i]) \o FlatMap(lines, i + 1)

parseJjWorkspaceList(output) ==
  IF trim(output) = <<>> THEN <<>> ELSE FlatMap(split(trim(output), "\n"), 1)

\* what `jj workspace list` prints for the registered workspaces: one line per
\* workspace, in name order
NameOrder == << <<"a">>, <<"a", "-", "b">>, DEFAULT_WORKSPACE_NAME >>
Listing(reg) == SelectSeq(NameOrder, LAMBDA w : w \in reg)
ChangeIdOf(name) == <<"k">> \o name
RECURSIVE ListingText(_)
ListingText(names) ==
  IF names = <<>> THEN <<>>
  ELSE Head(names) \o <<":", " ">> \o ChangeIdOf(Head(names)) \o <<" ", "c", "\n">>
       \o ListingText(Tail(names))
JjWorkspaceListStdout(reg) == ListingText(Listing(reg))

\* getJjWorkspaceList: the call, and the names or the error it yields
getJjWorkspaceList(cwd, listRes) ==
  [call |-> Call("jj workspace list", <<>>, <<>>, cwd, listRes.exitCode),
   result |-> IF listRes.exitCode # 0
              THEN Err("JujutsuCommandError", "list workspaces", listRes.stderr)
              ELSE Ok(<<>>),
   names |-> IF listRes.exitCode # 0 THEN <<>>
             ELSE parseJjWorkspaceList(JjWorkspaceListStdout(registry))]

\* remainder.split(/\s+/)[0] for a trimmed remainder: the characters before the first
\* whitespace
\* variant: the whole remainder
firstPartUnsplit(s) == s
RECURSIVE firstPart(_)
firstPart(s) ==
  IF s = <<>> \/ IsSpace(Head(s)) THEN <<>> ELSE <<Head(s)>> \o firstPart(Tail(s))

\* getChangeIdFromWorkspaceList from line i on; the empty string stands for null
RECURSIVE changeIdFrom(_, _, _)
changeIdFrom(lines, i, workspaceName) ==
  IF i > Len(lines) THEN <<>>
  ELSE LET line == lines[i]
           colonIndex == indexOf(line, ":")
       IN  IF colonIndex <= 0 THEN changeIdFrom(lines, i + 1, workspaceName)
           ELSE IF trim(substring(line, 0, colonIndex)) # workspaceName
           THEN changeIdFrom(lines, i + 1, workspaceName)
           ELSE firstPart(trim(substring(line, colonIndex + 1, Len(line))))

getChangeIdFromWorkspaceList(output, workspaceName) ==
  IF trim(output) = <<>> THEN <<>>
  ELSE changeIdFrom(split(trim(output), "\n"), 1, workspaceName)

\* getCurrentWorkspaceName once getRepoRoot() and getDefaultWorkspacePath() have returned
currentWorkspaceNameOf(currentWorkspaceRoot, defaultWorkspacePath) ==
  IF ~currentWorkspaceRoot.ok THEN currentWorkspaceRoot
  ELSE IF ~defaultWorkspacePath.ok THEN defaultWorkspacePath
  ELSE IF currentWorkspaceRoot.path = defaultWorkspacePath.path
  THEN Ok(DEFAULT_WORKSPACE_NAME)
  ELSE Ok(basename(currentWorkspaceRoot.path))

getCurrentWorkspaceName(cwd) ==
  currentWorkspaceNameOf(getRepoRoot(cwd), getDefaultWorkspacePath(cwd))

\* getJjWorkspaceChangeId: the call, and the change id or the error it yields
getJjWorkspaceChangeId(cwd, workspaceName, listRes) ==
  LET changeId == getChangeIdFromWorkspaceList(JjWorkspaceListStdout(registry),
                                               workspaceName)
  IN  [call |-> Call("jj workspace list", <<>>, <<>>, cwd, listRes.exitCode),
       result |-> IF listRes.exitCode # 0
                  THEN Err("JujutsuCommandError", "list workspaces", listRes.stderr)
                  ELSE IF changeId = <<>>
                  THEN Err("WorkspaceNotFoundError", "", workspaceName)
                  ELSE Ok(changeId)]

----------------------------------------------------------------------------
\* copyFileOrDir and the two loops of newWorkspace

\* the exit code of cp is never read and the contents of a workspace are not part of the
\* state, so a copy is recorded as completed
copyFileOrDir(src, dest, cwd) ==
  IF ~existsSync(src)
  THEN Steps(<<>>, << Line("warn", "Source does not exist", <<>>, <<src>>) >>)
  ELSE IF isDirectory(src)
       THEN Steps(<< Call("cp -r", <<>>, <<src, dest>>, cwd, 0) >>, <<>>)
       ELSE Steps(<< Call("cp", <<>>, <<src, dest>>, cwd, 0) >>, <<>>)

\* variant: the copies of the later entries are started first
awaitedInTurnReversed(this, rest) == rest \o this
\* each copy is awaited before the next entry is looked at
awaitedInTurn(this, rest) == this \o rest

RECURSIVE CopyLoop(_, _, _, _, _)
CopyLoop(files, i, repoRoot, workspacePath, cwd) ==
  IF i > Len(files) THEN Steps(<<>>, <<>>)
  ELSE LET srcPath == join(repoRoot, files[i])
           this == copyFileOrDir(srcPath, workspacePath, cwd)
           rest == CopyLoop(files, i + 1, repoRoot, workspacePath, cwd)
       IN  Steps(awaitedInTurn(this.calls, rest.calls),
                 << Line("log", "Copying", <<files[i]>>, <<>>) >> \o this.out \o rest.out)

\* variant: the loop ends at the first failed command
commandFailureStopsOnFailure(result) == result.exitCode # 0
\* a failed command is reported with a warning and the loop goes on
commandFailureStops(result) == FALSE

RECURSIVE PostCreateLoop(_, _, _, _)
PostCreateLoop(commands, i, workspacePath, cmdRes) ==
  IF i > Len(commands) THEN Steps(<<>>, <<>>)
  ELSE LET cmdParts == split(commands[i], " ")
           rest == IF commandFailureStops(cmdRes[i])
                   THEN Steps(<<>>, <<>>)
                   ELSE PostCreateLoop(commands, i + 1, workspacePath, cmdRes)
       IN  Steps(<< Call("spawn", cmdParts, <<>>, workspacePath, cmdRes[i].exitCode) >>
                 \o rest.calls,
                 << Line("log", "Running command", <<commands[i]>>, <<>>) >>
                 \o (IF cmdRes[i].exitCode # 0
                     THEN << Line("warn", "Command failed", <<commands[i]>>, <<>>),
                             Line("warn", "stderr", <<cmdRes[i].stderr>>, <<>>) >>
                     ELSE <<>>)
                 \o rest.out)

----------------------------------------------------------------------------
\* workspace.ts

\* directories a command is started from: inside the default workspace, outside any
\* repository, and at the root of one secondary workspace
Cwds == {DefaultSubDir, OutsideDir} \cup (WorkspaceDirsOnDisk \cap {join(ContainerOnDisk, <<"a">>)})

\* the results an invocation draws from its environment; a result the invocation
\* never reads is drawn from a one-element set
ExecResultsIf(reads) == IF reads THEN ExecResults ELSE { CHOOSE r \in ExecResults : r.exitCode = 0 }
ResultsIf(reads, n, S) == IF reads THEN [1..n -> S] ELSE { <<>> }

\* an invocation that ends without having changed anything
Throw(op, cwd, args, r, steps) ==
  /\ last' = Invocation(op, cwd, args, Outcome(r), steps)
  /\ UNCHANGED <<dirs, containerExists, registry, config>>

\* variant: no look at the target path
workspaceAlreadyExistsUnchecked(workspacePath) == FALSE
workspaceAlreadyExists(workspacePath) == existsSync(workspacePath)

\* variant: the exit code of `jj workspace add` is not read
addFailedIgnored(result) == FALSE
addFailed(result) == result.exitCode # 0

newWorkspace(cwd, name, revision, mkdirRes, addRes, cmdRes) ==
  LET normalizedName == normalizeWorkspaceName(name)
      workspacePath == getWorkspacePath(cwd, normalizedName, FALSE, <<>>)
      workspacesDir == getWorkspacesDir(cwd, FALSE, <<>>)
      args == <<name, revision>>
      mkdir == IF existsSync(workspacesDir.path)
               THEN <<>>
               ELSE << Call("mkdir -p", <<>>, <<workspacesDir.path>>, cwd,
                            mkdirRes.exitCode) >>
      madeContainer == mkdir # <<>> /\ mkdirRes.exitCode = 0
      jjArgs == IF revision # <<>> THEN <<normalizedName, revision>> ELSE <<normalizedName>>
      add == << Call("jj workspace add", jjArgs, <<workspacePath.path>>, cwd,
                     addRes.exitCode) >>
      creating == << Line("log", "Creating workspace", <<normalizedName>>, <<>>) >>
      repoRoot == getRepoRoot(cwd)
      copies == CopyLoop(config.copyFiles, 1, repoRoot.path, workspacePath.path, cwd)
      commands == PostCreateLoop(config.postCreateCommands, 1, workspacePath.path, cmdRes)
  IN  IF ~workspacePath.ok
      THEN Throw("new", cwd, args, workspacePath, Steps(<<>>, <<>>))
      ELSE IF workspaceAlreadyExists(workspacePath.path)
      THEN Throw("new", cwd, args, Err("WorkspaceExistsError", "", normalizedName),
                 Steps(<<>>, <<>>))
      ELSE IF addFailed(addRes)
      THEN /\ last' = Invocation("new", cwd, args,
                        Outcome(Err("JujutsuCommandError", "create workspace", addRes.stderr)),
                        Steps(mkdir \o add, creating))
           /\ containerExists' = (containerExists \/ madeContainer)
           /\ UNCHANGED <<dirs, registry, config>>
      ELSE /\ last' = Invocation("new", cwd, args, Success,
                        Steps(mkdir \o add \o copies.calls \o commands.calls,
                              creating \o copies.out \o commands.out
                              \o << Line("log", "Created workspace", <<normalizedName>>,
                                         <<workspacePath.path>>) >>))
           /\ containerExists' = (containerExists \/ madeContainer \/ addRes.exitCode = 0)
           /\ dirs' = IF addRes.exitCode = 0 THEN DirsWith(dirs, normalizedName) ELSE dirs
           /\ registry' = IF addRes.exitCode = 0
                          THEN JjWorkspaceAdd(registry, normalizedName)
                          ELSE registry
           /\ UNCHANGED config

newWorkspaceSpawns(cwd, name) ==
  LET workspacePath == getWorkspacePath(cwd, normalizeWorkspaceName(name), FALSE, <<>>)
  IN  workspacePath.ok /\ ~workspaceAlreadyExists(workspacePath.path)

NewWorkspaceFrom(cwds, names, revisions) ==
  \E cwd \in cwds, name \in names :
    \E revision \in (IF newWorkspaceSpawns(cwd, name) THEN revisions ELSE { <<>> }),
       mkdirRes \in ExecResultsIf(newWorkspaceSpawns(cwd, name) /\ ~containerExists),
       addRes \in ExecResultsIf(newWorkspaceSpawns(cwd, name)) :
      \E cmdRes \in ResultsIf(newWorkspaceSpawns(cwd, name) /\ ~addFailed(addRes),
                              Len(config.postCreateCommands), ExecResults) :
        /\ (newWorkspaceSpawns(cwd, name) /\ addRes.exitCode = 0) =>
             /\ JjAddAccepts(registry, normalizeWorkspaceName(name))
             /\ normalizeWorkspaceName(name) \notin DOMAIN dirs
        /\ newWorkspace(cwd, name, revision, mkdirRes, addRes, cmdRes)

Missing == <<"x">>

RECURSIVE ListLines(_, _, _)
ListLines(names, i, cwd) ==
  IF i > Len(names) THEN <<>>
  ELSE IF names[i] = DEFAULT_WORKSPACE_NAME THEN ListLines(names, i + 1, cwd)
  ELSE LET path == getWorkspacePath(cwd, names[i], FALSE, <<>>).path
           mark == IF getRepoRoot(cwd).path = path THEN "*" ELSE " "
       IN  << IF existsSync(path)
              THEN Line("log", mark, <<names[i]>>, <<path>>)
              ELSE Line("log", mark, <<names[i], Missing>>, <<>>) >>
           \o ListLines(names, i + 1, cwd)

listWorkspaces(cwd, listRes) ==
  LET jjWorkspaces == getJjWorkspaceList(cwd, listRes)
      defaultPath == getDefaultWorkspacePath(cwd)
      currentPath == getRepoRoot(cwd)
      defaultMark == IF currentPath.path = defaultPath.path THEN "*" ELSE " "
  IN  IF ~jjWorkspaces.result.ok
      THEN Throw("list", cwd, <<>>, jjWorkspaces.result, Steps(<<jjWorkspaces.call>>, <<>>))
      ELSE IF ~defaultPath.ok
      THEN Throw("list", cwd, <<>>, defaultPath, Steps(<<jjWorkspaces.call>>, <<>>))
      ELSE /\ last' = Invocation("list", cwd, <<>>, Success,
                        Steps(<<jjWorkspaces.call>>,
                              << Line("log", defaultMark, <<DEFAULT_WORKSPACE_NAME>>,
                                      <<defaultPath.path>>) >>
                              \o ListLines(jjWorkspaces.names, 1, cwd)))
           /\ UNCHANGED <<dirs, containerExists, registry, config>>

ListWorkspacesFrom(cwds) ==
  \E cwd \in cwds, listRes \in ExecResults : listWorkspaces(cwd, listRes)

\* variant: the default workspace is not protected
isDefaultWorkspaceUnchecked(normalizedName) == FALSE
isDefaultWorkspace(normalizedName) == normalizedName = DEFAULT_WORKSPACE_NAME

\* variant: rm -rf is run whether or not the directory is there
removesDirectoryUnseen(workspacePath, forgetRes) == TRUE
\* variant: the directory is kept when the tool could not forget the workspace
removesDirectoryIfForgotten(workspacePath, forgetRes) ==
  existsSync(workspacePath) /\ forgetRes.exitCode = 0
removesDirectory(workspacePath, forgetRes) == existsSync(workspacePath)

removeWorkspace(cwd, name, forgetRes, rmRes) ==
  LET normalizedName == normalizeWorkspaceName(name)
      workspacePath == getWorkspacePath(cwd, normalizedName, FALSE, <<>>)
      forget == << Call("jj workspace forget", <<normalizedName>>, <<>>, cwd,
                        forgetRes.exitCode) >>
      remove == IF removesDirectory(workspacePath.path, forgetRes)
                THEN << Call("rm -rf", <<>>, <<workspacePath.path>>, cwd, rmRes.exitCode) >>
                ELSE <<>>
      removed == remove # <<>> /\ rmRes.exitCode = 0
  IN  IF isDefaultWorkspace(normalizedName)
      THEN Throw("rm", cwd, <<name>>, Err("CannotRemoveDefaultWorkspaceError", "", <<>>),
                 Steps(<<>>, <<>>))
      ELSE IF ~workspacePath.ok
      THEN Throw("rm", cwd, <<name>>, workspacePath, Steps(<<>>, <<>>))
      ELSE /\ last' = Invocation("rm", cwd, <<name>>, Success,
                        Steps(forget \o remove,
                              << Line("log", "Removing workspace", <<normalizedName>>, <<>>) >>
                              \o (IF forgetRes.exitCode # 0
                                  THEN << Line("warn", "Failed to run jj workspace forget",
                                               <<forgetRes.stderr>>, <<>>) >>
                                  ELSE <<>>)
                              \o << Line("log", "Removed workspace", <<normalizedName>>, <<>>) >>))
           /\ registry' = IF forgetRes.exitCode = 0
                          THEN JjWorkspaceForget(registry, normalizedName)
                          ELSE registry
           /\ dirs' = IF removed THEN DirsWithout(dirs, normalizedName) ELSE dirs
           /\ UNCHANGED <<containerExists, config>>

removeWorkspaceSpawns(cwd, name) ==
  /\ ~isDefaultWorkspace(normalizeWorkspaceName(name))
  /\ getWorkspacePath(cwd, normalizeWorkspaceName(name), FALSE, <<>>).ok

RemoveWorkspaceFrom(cwds, names) ==
  \E cwd \in cwds, name \in names :
    \E forgetRes \in ExecResultsIf(removeWorkspaceSpawns(cwd, name)),
       rmRes \in ExecResultsIf(removeWorkspaceSpawns(cwd, name)
                               /\ normalizeWorkspaceName(name) \in DOMAIN dirs) :
      removeWorkspace(cwd, name, forgetRes, rmRes)

\* variant: the new path is not looked at
renameChecksOldOnly(oldPath, newPath, normalizedOldName, normalizedNewName) ==
  IF ~existsSync(oldPath) THEN Err("WorkspaceNotFoundError", "", normalizedOldName)
  ELSE Ok(<<>>)
\* variant: the two checks in the other order
renameChecksNewFirst(oldPath, newPath, normalizedOldName, normalizedNewName) ==
  IF existsSync(newPath) THEN Err("WorkspaceExistsError", "", normalizedNewName)
  ELSE IF ~existsSync(oldPath) THEN Err("WorkspaceNotFoundError", "", normalizedOldName)
  ELSE Ok(<<>>)
renameChecks(oldPath, newPath, normalizedOldName, normalizedNewName) ==
  IF ~existsSync(oldPath) THEN Err("WorkspaceNotFoundError", "", normalizedOldName)
  ELSE IF existsSync(newPath) THEN Err("WorkspaceExistsError", "", normalizedNewName)
  ELSE Ok(<<>>)

\* variant: the tool is run from the directory the command was started in
renameCallFromCwd(normalizedNewName, oldPath, cwd, renameRes) ==
  Call("jj workspace rename", <<normalizedNewName>>, <<>>, cwd, renameRes.exitCode)
renameCall(normalizedNewName, oldPath, cwd, renameRes) ==
  Call("jj workspace rename", <<normalizedNewName>>, <<>>, oldPath, renameRes.exitCode)

renameWorkspace(cwd, oldName, newName, renameRes, mvRes) ==
  LET normalizedOldName == normalizeWorkspaceName(oldName)
      normalizedNewName == normalizeWorkspaceName(newName)
      oldPath == getWorkspacePath(cwd, normalizedOldName, FALSE, <<>>)
      newPath == getWorkspacePath(cwd, normalizedNewName, FALSE, <<>>)
      args == <<oldName, newName>>
      checks == renameChecks(oldPath.path, newPath.path, normalizedOldName, normalizedNewName)
      rename == << renameCall(normalizedNewName, oldPath.path, cwd, renameRes) >>
      mv == << Call("mv", <<>>, <<oldPath.path, newPath.path>>, cwd, mvRes.exitCode) >>
      renaming == << Line("log", "Renaming workspace",
                          <<normalizedOldName, normalizedNewName>>, <<>>) >>
      renamedDirs == DirsRenamed(dirs, normalizedOldName, normalizedNewName)
  IN  IF ~oldPath.ok
      THEN Throw("rename", cwd, args, oldPath, Steps(<<>>, <<>>))
      ELSE IF ~checks.ok
      THEN Throw("rename", cwd, args, checks, Steps(<<>>, <<>>))
      ELSE IF renameRes.exitCode # 0
      THEN Throw("rename", cwd, args,
                 Err("JujutsuCommandError", "rename workspace", renameRes.stderr),
                 Steps(rename, renaming))
      ELSE /\ last' = Invocation("rename", cwd, args, Success,
                        Steps(rename \o mv,
                              renaming \o << Line("log", "Renamed workspace",
                                <<normalizedOldName, normalizedNewName>>, <<>>) >>))
           /\ registry' = JjWorkspaceRename(registry, HeldName(dirs, normalizedOldName),
                                            normalizedNewName)
           /\ dirs' = IF mvRes.exitCode = 0
                      THEN DirsMoved(renamedDirs, normalizedOldName, normalizedNewName)
                      ELSE renamedDirs
           /\ UNCHANGED <<containerExists, config>>

renameWorkspaceSpawns(cwd, oldName, newName) ==
  LET oldPath == getWorkspacePath(cwd, normalizeWorkspaceName(oldName), FALSE, <<>>)
      newPath == getWorkspacePath(cwd, normalizeWorkspaceName(newName), FALSE, <<>>)
  IN  /\ oldPath.ok
      /\ renameChecks(oldPath.path, newPath.path, normalizeWorkspaceName(oldName),
                      normalizeWorkspaceName(newName)).ok

RenameWorkspaceFrom(cwds, names) ==
  \E cwd \in cwds, oldName \in names, newName \in names :
    \E renameRes \in ExecResultsIf(renameWorkspaceSpawns(cwd, oldName, newName)) :
      \E mvRes \in ExecResultsIf(renameWorkspaceSpawns(cwd, oldName, newName)
                                 /\ renameRes.exitCode = 0) :
        /\ (renameWorkspaceSpawns(cwd, oldName, newName) /\ renameRes.exitCode = 0) =>
             /\ normalizeWorkspaceName(oldName) \in DOMAIN dirs
             /\ JjRenameAccepts(registry, HeldName(dirs, normalizeWorkspaceName(oldName)),
                                normalizeWorkspaceName(newName))
        /\ (renameWorkspaceSpawns(cwd, oldName, newName) /\ mvRes.exitCode = 0) =>
             normalizeWorkspaceName(newName) \notin DOMAIN dirs
        /\ renameWorkspace(cwd, oldName, newName, renameRes, mvRes)

\* variant: the default workspace is treated like any other
skipsWorkspaceNever(ws) == FALSE
skipsWorkspace(ws) == ws = DEFAULT_WORKSPACE_NAME

\* variant: the exit code of `jj workspace forget` is not read
forgetSucceededAlways(result) == TRUE
forgetSucceeded(result) == result.exitCode = 0

\* the loop of cleanWorkspaces from entry i on: the calls, the warnings, the names
\* forgotten, the tool's registry afterwards, and the error that ends the loop early
RECURSIVE CleanLoop(_, _, _, _, _)
CleanLoop(workspaces, i, cwd, forgetRes, reg) ==
  IF i > Len(workspaces)
  THEN [calls |-> <<>>, out |-> <<>>, forgotten |-> <<>>, reg |-> reg, result |-> Ok(<<>>)]
  ELSE IF skipsWorkspace(workspaces[i])
  THEN CleanLoop(workspaces, i + 1, cwd, forgetRes, reg)
  ELSE LET ws == workspaces[i]
           path == getWorkspacePath(cwd, ws, FALSE, <<>>)
       IN  IF ~path.ok
           THEN [calls |-> <<>>, out |-> <<>>, forgotten |-> <<>>, reg |-> reg,
                 result |-> path]
           ELSE IF existsSync(path.path)
           THEN CleanLoop(workspaces, i + 1, cwd, forgetRes, reg)
           ELSE LET rest == CleanLoop(workspaces, i + 1, cwd, forgetRes,
                                      IF forgetRes[i].exitCode = 0
                                      THEN JjWorkspaceForget(reg, ws) ELSE reg)
                IN  [calls |-> << Call("jj workspace forget", <<ws>>, <<>>, cwd,
                                       forgetRes[i].exitCode) >> \o rest.calls,
                     out |-> (IF forgetSucceeded(forgetRes[i]) THEN <<>>
                              ELSE << Line("warn", "Failed to forget workspace",
                                           <<ws, trim(forgetRes[i].stderr)>>, <<>>) >>)
                             \o rest.out,
                     forgotten |-> (IF forgetSucceeded(forgetRes[i]) THEN <<ws>> ELSE <<>>)
                                   \o rest.forgotten,
                     reg |-> rest.reg,
                     result |-> rest.result]

NothingToDo == Line("log", "No stale workspaces found", <<>>, <<>>)

\* variant: the list of forgotten workspaces is printed also when it is empty
nothingForgottenNever(forgottenWorkspaces) == FALSE
nothingForgotten(forgottenWorkspaces) == Len(forgottenWorkspaces) = 0

cleanWorkspaces(cwd, listRes, forgetRes) ==
  LET workspaces == getJjWorkspaceList(cwd, listRes)
      loop == CleanLoop(workspaces.names, 1, cwd, forgetRes, registry)
      report == IF nothingForgotten(loop.forgotten)
                THEN << NothingToDo >>
                ELSE << Line("log", "Forgotten workspaces:", loop.forgotten, <<>>) >>
  IN  IF ~workspaces.result.ok
      THEN Throw("clean", cwd, <<>>, workspaces.result, Steps(<<workspaces.call>>, <<>>))
      ELSE /\ last' = Invocation("clean", cwd, <<>>, Outcome(loop.result),
                        Steps(<<workspaces.call>> \o loop.calls,
                              loop.out \o (IF loop.result.ok THEN report ELSE <<>>)))
           /\ registry' = loop.reg
           /\ UNCHANGED <<dirs, containerExists, config>>

\* the listed workspaces cleanWorkspaces asks the tool to forget
StaleAt(cwd, i) ==
  /\ ~skipsWorkspace(Listing(registry)[i])
  /\ getWorkspacePath(cwd, Listing(registry)[i], FALSE, <<>>).ok
  /\ Listing(registry)[i] \notin DOMAIN dirs

CleanWorkspacesFrom(cwds) ==
  \E cwd \in cwds, listRes \in ExecResults :
    \E forgetRes \in { f \in [1..Cardinality(registry) -> ExecResults] :
                         \A i \in 1..Cardinality(registry) :
                           ~(listRes.exitCode = 0 /\ StaleAt(cwd, i)) => f[i].exitCode = 0 } :
      cleanWorkspaces(cwd, listRes, forgetRes)

\* an invocation that returns normally without having changed anything
Return(op, cwd, args, steps) ==
  /\ last' = Invocation(op, cwd, args, Success, steps)
  /\ UNCHANGED <<dirs, containerExists, registry, config>>

\* variant: the reserved name is resolved like any other
goesToDefaultNever(name) == FALSE
\* the name is compared as given, before any normalization
goesToDefault(name) == name = DEFAULT_WORKSPACE_NAME

goWorkspace(cwd, name) ==
  LET defaultPath == getDefaultWorkspacePath(cwd)
      normalizedName == normalizeWorkspaceName(name)
      workspacePath == getWorkspacePath(cwd, normalizedName, FALSE, <<>>)
  IN  IF goesToDefault(name)
      THEN IF ~defaultPath.ok
           THEN Throw("go", cwd, <<name>>, defaultPath, Steps(<<>>, <<>>))
           ELSE Return("go", cwd, <<name>>,
                       Steps(<<>>, << Line("log", "", <<>>, <<defaultPath.path>>) >>))
      ELSE IF ~workspacePath.ok
      THEN Throw("go", cwd, <<name>>, workspacePath, Steps(<<>>, <<>>))
      ELSE IF ~existsSync(workspacePath.path)
      THEN Throw("go", cwd, <<name>>, Err("WorkspaceNotFoundError", "", normalizedName),
                 Steps(<<>>, <<>>))
      ELSE Return("go", cwd, <<name>>,
                  Steps(<<>>, << Line("log", "", <<>>, <<workspacePath.path>>) >>))

\* `jw go` without a name goes to the default workspace
GoWorkspaceFrom(cwds, names) ==
  \E cwd \in cwds, arg \in names \cup { <<>> } :
    goWorkspace(cwd, IF arg = <<>> THEN DEFAULT_WORKSPACE_NAME ELSE arg)

copyToWorkspace(cwd, name) ==
  LET normalizedName == normalizeWorkspaceName(name)
      workspacePath == getWorkspacePath(cwd, normalizedName, FALSE, <<>>)
      repoRoot == getRepoRoot(cwd)
      copies == CopyLoop(config.copyFiles, 1, repoRoot.path, workspacePath.path, cwd)
  IN  IF ~workspacePath.ok
      THEN Throw("copy", cwd, <<name>>, workspacePath, Steps(<<>>, <<>>))
      ELSE IF ~existsSync(workspacePath.path)
      THEN Throw("copy", cwd, <<name>>, Err("WorkspaceNotFoundError", "", normalizedName),
                 Steps(<<>>, <<>>))
      ELSE Return("copy", cwd, <<name>>,
                  Steps(copies.calls,
                        << Line("log", "Copying files to workspace", <<normalizedName>>, <<>>) >>
                        \o copies.out
                        \o << Line("log", "Copy completed", <<>>, <<>>) >>))

CopyToWorkspaceFrom(cwds, names) ==
  \E cwd \in cwds, name \in names : copyToWorkspace(cwd, name)

\* thisWorkspace and useWorkspace: the handlers of `jw this` and `jw use`, which the tests
\* of workspace.ts exercise; they are written from the specification's description of the
\* two operations and from those tests, on top of getCurrentWorkspaceName,
\* getChangeIdFromWorkspaceList and getJjWorkspaceChangeId of utils.ts. The revision a
\* workspace has checked out is not part of the state: the listing shows ChangeIdOf(name)
\* for every registered name, before and after `jj edit`.

\* variant: `jj edit` is run in the directory the command was started from
editDirCurrent(cwd, defaultWorkspacePath) == cwd
editDir(cwd, defaultWorkspacePath) == defaultWorkspacePath

Switched(name, changeId) ==
  << Line("log", "Switched default workspace", <<name, changeId>>, <<>>) >>

thisWorkspace(cwd, listRes, editRes) ==
  LET currentName == getCurrentWorkspaceName(cwd)
      defaultPath == getDefaultWorkspacePath(cwd)
      list == << Call("jj workspace list", <<>>, <<>>, cwd, listRes.exitCode) >>
      changeId == getChangeIdFromWorkspaceList(JjWorkspaceListStdout(registry),
                                               currentName.path)
      edit == << Call("jj edit", <<changeId>>, <<>>, editDir(cwd, defaultPath.path),
                      editRes.exitCode) >>
  IN  IF ~currentName.ok
      THEN Throw("this", cwd, <<>>, currentName, Steps(<<>>, <<>>))
      ELSE IF currentName.path = DEFAULT_WORKSPACE_NAME
      THEN Throw("this", cwd, <<>>, Err("ValidationError", "", <<>>), Steps(<<>>, <<>>))
      ELSE IF listRes.exitCode # 0
      THEN Throw("this", cwd, <<>>,
                 Err("JujutsuCommandError", "list workspaces", listRes.stderr),
                 Steps(list, <<>>))
      ELSE IF changeId = <<>>
      THEN Throw("this", cwd, <<>>, Err("ValidationError", "", currentName.path),
                 Steps(list, <<>>))
      ELSE IF editRes.exitCode # 0
      THEN Throw("this", cwd, <<>>, Err("JujutsuCommandError", "edit", editRes.stderr),
                 Steps(list \o edit, <<>>))
      ELSE Return("this", cwd, <<>>,
                  Steps(list \o edit, Switched(currentName.path, changeId)))

thisWorkspaceLists(cwd) ==
  LET currentName == getCurrentWorkspaceName(cwd)
  IN  currentName.ok /\ currentName.path # DEFAULT_WORKSPACE_NAME

thisWorkspaceEdits(cwd, listRes) ==
  /\ thisWorkspaceLists(cwd)
  /\ listRes.exitCode = 0
  /\ getChangeIdFromWorkspaceList(JjWorkspaceListStdout(registry),
                                  getCurrentWorkspaceName(cwd).path) # <<>>

ThisWorkspaceFrom(cwds) ==
  \E cwd \in cwds :
    \E listRes \in ExecResultsIf(thisWorkspaceLists(cwd)) :
      \E editRes \in ExecResultsIf(thisWorkspaceEdits(cwd, listRes)) :
        thisWorkspace(cwd, listRes, editRes)

\* variant: use may be started from any workspace
notInDefaultWorkspaceNever(currentWorkspaceRoot, defaultWorkspacePath) == FALSE
notInDefaultWorkspace(currentWorkspaceRoot, defaultWorkspacePath) ==
  currentWorkspaceRoot # defaultWorkspacePath

\* the empty name stands for a missing argument
useWorkspace(cwd, name, listRes, editRes) ==
  LET repoRoot == getRepoRoot(cwd)
      defaultPath == getDefaultWorkspacePath(cwd)
      changeId == getJjWorkspaceChangeId(cwd, name, listRes)
      edit == << Call("jj edit", <<changeId.result.path>>, <<>>, defaultPath.path,
                      editRes.exitCode) >>
  IN  IF name = <<>> \/ name = DEFAULT_WORKSPACE_NAME
      THEN Throw("use", cwd, <<name>>, Err("ValidationError", "", name), Steps(<<>>, <<>>))
      ELSE IF ~repoRoot.ok
      THEN Throw("use", cwd, <<name>>, repoRoot, Steps(<<>>, <<>>))
      ELSE IF ~defaultPath.ok
      THEN Throw("use", cwd, <<name>>, defaultPath, Steps(<<>>, <<>>))
      ELSE IF notInDefaultWorkspace(repoRoot.path, defaultPath.path)
      THEN Throw("use", cwd, <<name>>, Err("NotDefaultWorkspaceError", "", <<>>),
                 Steps(<<>>, <<>>))
      ELSE IF ~changeId.result.ok
      THEN Throw("use", cwd, <<name>>, changeId.result, Steps(<<changeId.call>>, <<>>))
      ELSE IF editRes.exitCode # 0
      THEN Throw("use", cwd, <<name>>, Err("JujutsuCommandError", "edit", editRes.stderr),
                 Steps(<<changeId.call>> \o edit, <<>>))
      ELSE Return("use", cwd, <<name>>,
                  Steps(<<changeId.call>> \o edit, Switched(name, changeId.result.path)))

useWorkspaceLists(cwd, name) ==
  LET repoRoot == getRepoRoot(cwd)
      defaultPath == getDefaultWorkspacePath(cwd)
  IN  /\ name # <<>> /\ name # DEFAULT_WORKSPACE_NAME
      /\ repoRoot.ok /\ defaultPath.ok
      /\ ~notInDefaultWorkspace(repoRoot.path, defaultPath.path)

UseWorkspaceFrom(cwds, names) ==
  \E cwd \in cwds, name \in names \cup { <<>> } :
    \E listRes \in ExecResultsIf(useWorkspaceLists(cwd, name)) :
      \E editRes \in ExecResultsIf(useWorkspaceLists(cwd, name)
                                   /\ getJjWorkspaceChangeId(cwd, name, listRes).result.ok) :
        useWorkspace(cwd, name, listRes, editRes)

----------------------------------------------------------------------------
\* getRepoRoot and getDefaultWorkspacePath over an arbitrary directory tree: a tree maps
\* each path on disk to its kind and, for a file, its content

DirEntry == [kind |-> "dir", content |-> <<>>]
FileEntry(content) == [kind |-> "file", content |-> content]
NoEntry == [kind |-> "none", content |-> <<>>]

\* path.dirname on the text of a path: trailing slashes are dropped, then everything from
\* the last slash on
RECURSIVE stripTrailingSlashes(_)
stripTrailingSlashes(s) ==
  IF Len(s) > 1 /\ s[Len(s)] = "/"
  THEN stripTrailingSlashes(SubSeq(s, 1, Len(s) - 1)) ELSE s
lastIndexOf(s, c) ==
  IF \A i \in 1..Len(s) : s[i] # c THEN -1
  ELSE (CHOOSE i \in 1..Len(s) : s[i] = c /\ \A j \in (i + 1)..Len(s) : s[j] # c) - 1
dirnameOfText(s) ==
  LET t == stripTrailingSlashes(s)
      slash == lastIndexOf(t, "/")
  IN  IF slash = -1 THEN <<".">>
      ELSE IF slash = 0 THEN <<"/">>
      ELSE stripTrailingSlashes(substring(t, 0, slash))

\* the path that the text of an absolute path names
segmentsOfText(s) == SelectSeq(split(s, "/"), LAMBDA seg : seg # <<>>)

\* variant: the walk gives up one level below the filesystem root
atFilesystemRootOrBelow(currentDir) == Len(currentDir) <= 1
atFilesystemRoot(currentDir) == currentDir = <<>>

RECURSIVE getRepoRootIn(_, _)
getRepoRootIn(tree, currentDir) ==
  IF atFilesystemRoot(currentDir)
  THEN Err("NotJujutsuRepositoryError", "", <<>>)
  ELSE IF join(currentDir, JJ_DIR) \in DOMAIN tree
       THEN Ok(currentDir)
       ELSE getRepoRootIn(tree, dirname(currentDir))

\* variant: one level up from the content of the pointer file
pointedRootOneLevel(repoStorePathContent) == dirnameOfText(repoStorePathContent)
pointedRoot(repoStorePathContent) == dirnameOfText(dirnameOfText(repoStorePathContent))

defaultWorkspacePathIn(tree, currentWorkspaceRoot) ==
  IF ~currentWorkspaceRoot.ok THEN currentWorkspaceRoot
  ELSE IF RepoEntryOf(currentWorkspaceRoot.path) \notin DOMAIN tree
  THEN Err("Error", "", <<>>)
  ELSE IF tree[RepoEntryOf(currentWorkspaceRoot.path)].kind = "dir"
  THEN currentWorkspaceRoot
  ELSE Ok(segmentsOfText(pointedRoot(trim(tree[RepoEntryOf(currentWorkspaceRoot.path)].content))))

getDefaultWorkspacePathIn(tree, startDir) ==
  defaultWorkspacePathIn(tree, getRepoRootIn(tree, startDir))

\* the trees and the directories the two functions are applied to: any of four nested
\* directories may hold .jj, and .jj/repo is missing, a directory, or a file
MarkerParents == { <<>>, HomeDir, DefaultRoot, DefaultSubDir }
StartDirs == MarkerParents \cup { OutsideDir }
PointedText == <<"/", "h", "/", "q", "/", "j", "/", "p">>
PointerContents ==
  { PointedText, PointedText \o <<"\n">>, <<" ">> \o PointedText \o <<"/", "\n">> }
RepoEntries == { NoEntry, DirEntry } \cup { FileEntry(c) : c \in PointerContents }
TreeWith(marked, entry) ==
  [p \in { join(m, JJ_DIR) : m \in marked }
         \cup { RepoEntryOf(m) : m \in (IF entry = NoEntry THEN {} ELSE marked) }
     |-> IF p \in { join(m, JJ_DIR) : m \in marked } THEN DirEntry ELSE entry]
Trees == { TreeWith(marked, entry) : marked \in SUBSET MarkerParents, entry \in RepoEntries }

----------------------------------------------------------------------------
\* Specification

\* a configuration file without the key workspacesDirSuffix, or with an empty one, yields
\* a configuration without that field
NoSuffix == <<>>
CustomSuffix == <<"-", "w">>
DefaultConfig ==
  [copyFiles |-> <<>>, postCreateCommands |-> <<>>,
   workspacesDirSuffix |-> WORKSPACES_DIR_SUFFIX]
ConfigWith(n, m) ==
  [copyFiles |-> SubSeq(AllCopyFiles, 1, Min(n, Len(AllCopyFiles))),
   postCreateCommands |-> SubSeq(AllPostCreateCommands, 1, Min(m, Len(AllPostCreateCommands))),
   workspacesDirSuffix |-> NoSuffix]
ConfigWithSuffix(suffix) ==
  [copyFiles |-> <<>>, postCreateCommands |-> <<>>, workspacesDirSuffix |-> suffix]
Configs ==
  { DefaultConfig, ConfigWith(MaxCopyFiles, 0), ConfigWith(0, MaxPostCreateCommands),
    ConfigWith(1, 1), ConfigWithSuffix(CustomSuffix) }

\* a function of utils.ts applied to a tree and a directory, and what it returned
Probe(fn, tree, startDir, result) ==
  [fn |-> fn, tree |-> tree, startDir |-> startDir, result |-> result]
NoProbe == Probe("none", <<>>, <<>>, Ok(<<>>))

NoInvocation == Invocation("none", <<>>, <<>>, Success, Steps(<<>>, <<>>))

\* what is remembered of an invocation once the next one has run
Warned(inv) == \E i \in DOMAIN inv.out : inv.out[i].level = "warn"
NameOf(inv) == IF inv.args = <<>> THEN <<>> ELSE normalizeWorkspaceName(inv.args[1])
Report(inv) == IF inv.out = <<>> THEN "" ELSE inv.out[Len(inv.out)].msg
Summary(inv, before) ==
  [op |-> inv.op, name |-> NameOf(inv), ok |-> inv.outcome.ok, warned |-> Warned(inv),
   report |-> Report(inv),
   created |-> inv.op = "rm" /\ before.op = "new" /\ before.ok /\ before.name = NameOf(inv)]
NoSummary ==
  [op |-> "none", name |-> <<>>, ok |-> TRUE, warned |-> FALSE, report |-> "",
   created |-> FALSE]
Remember == hist' = Summary(last, hist)

Init ==
  /\ dirs = <<>>
  /\ containerExists = FALSE
  /\ registry = { DEFAULT_WORKSPACE_NAME }
  /\ config \in Configs
  /\ last = NoInvocation
  /\ hist = NoSummary
  /\ probe = NoProbe

\* One command runs at a time: index.ts dispatches to a handler, the process exits, and
\* the next command starts from what the one before left on disk and in the tool.
Idle == last = NoInvocation

NewWorkspace == Idle /\ NewWorkspaceFrom(Cwds, Names, Revisions) /\ UNCHANGED <<hist, probe>>
ListWorkspaces == Idle /\ ListWorkspacesFrom(Cwds) /\ UNCHANGED <<hist, probe>>
RemoveWorkspace == Idle /\ RemoveWorkspaceFrom(Cwds, Names) /\ UNCHANGED <<hist, probe>>
RenameWorkspace == Idle /\ RenameWorkspaceFrom(Cwds, Names) /\ UNCHANGED <<hist, probe>>
CleanWorkspaces == Idle /\ CleanWorkspacesFrom(Cwds) /\ UNCHANGED <<hist, probe>>
GoWorkspace == Idle /\ GoWorkspaceFrom(Cwds, Names) /\ UNCHANGED <<hist, probe>>
CopyToWorkspace == Idle /\ CopyToWorkspaceFrom(Cwds, Names) /\ UNCHANGED <<hist, probe>>
ThisWorkspace == Idle /\ ThisWorkspaceFrom(Cwds) /\ UNCHANGED <<hist, probe>>
UseWorkspace == Idle /\ UseWorkspaceFrom(Cwds, Names) /\ UNCHANGED <<hist, probe>>
Exit ==
  /\ ~Idle
  /\ last' = NoInvocation
  /\ UNCHANGED <<dirs, containerExists, registry, config, hist, probe>>

Next ==
  \/ NewWorkspace
  \/ ListWorkspaces
  \/ RemoveWorkspace
  \/ RenameWorkspace
  \/ CleanWorkspaces
  \/ GoWorkspace
  \/ CopyToWorkspace
  \/ ThisWorkspace
  \/ UseWorkspace
  \/ Exit

Spec == Init /\ [][Next]_vars

\* The same commands with the one before the running one remembered; started with the
\* default configuration.
InitSeq == Init /\ config = DefaultConfig

NewWorkspaceSeq == Idle /\ NewWorkspaceFrom(Cwds, Names, { <<>> }) /\ UNCHANGED <<hist, probe>>
ListWorkspacesSeq == Idle /\ ListWorkspacesFrom(Cwds) /\ UNCHANGED <<hist, probe>>
RemoveWorkspaceSeq == Idle /\ RemoveWorkspaceFrom(Cwds, Names) /\ UNCHANGED <<hist, probe>>
RenameWorkspaceSeq == Idle /\ RenameWorkspaceFrom(Cwds, Names) /\ UNCHANGED <<hist, probe>>
CleanWorkspacesSeq == Idle /\ CleanWorkspacesFrom(Cwds) /\ UNCHANGED <<hist, probe>>
ExitSeq ==
  /\ ~Idle
  /\ last' = NoInvocation
  /\ Remember
  /\ UNCHANGED <<dirs, containerExists, registry, config, probe>>

NextSeq ==
  \/ NewWorkspaceSeq
  \/ ListWorkspacesSeq
  \/ RemoveWorkspaceSeq
  \/ RenameWorkspaceSeq
  \/ CleanWorkspacesSeq
  \/ ExitSeq

SpecSeq == InitSeq /\ [][NextSeq]_vars

\* The two path-resolving functions of utils.ts, each applied once to a directory tree and
\* a directory to start from.
InitPaths ==
  /\ dirs = <<>>
  /\ containerExists = FALSE
  /\ registry = { DEFAULT_WORKSPACE_NAME }
  /\ config = DefaultConfig
  /\ last = NoInvocation
  /\ hist = NoSummary
  /\ probe \in { Probe("none", tree, startDir, Ok(<<>>)) :
                   tree \in Trees, startDir \in StartDirs }

GetRepoRoot ==
  /\ probe.fn = "none"
  /\ probe' = Probe("getRepoRoot", probe.tree, probe.startDir,
                    getRepoRootIn(probe.tree, probe.startDir))
  /\ UNCHANGED <<dirs, containerExists, registry, config, last, hist>>
GetDefaultWorkspacePath ==
  /\ probe.fn = "none"
  /\ probe' = Probe("getDefaultWorkspacePath", probe.tree, probe.startDir,
                    getDefaultWorkspacePathIn(probe.tree, probe.startDir))
  /\ UNCHANGED <<dirs, containerExists, registry, config, last, hist>>

NextPaths ==
  \/ GetRepoRoot
  \/ GetDefaultWorkspacePath

SpecPaths == InitPaths /\ [][NextPaths]_vars

\* The text functions of utils.ts, each applied once to arguments drawn from the sets below.
MaxNameLen == 3

RECURSIVE TextsOver(_, _)
TextsOver(alphabet, n) ==
  IF n = 0 THEN { <<>> }
  ELSE TextsOver(alphabet, n - 1)
       \cup { Append(s, c) : s \in { x \in TextsOver(alphabet, n - 1) : Len(x) = n - 1 },
                              c \in alphabet }

RepoNames == { <<>>, <<"r">>, <<"m", "y">> }
SuffixValues == { <<>>, CustomSuffix, WORKSPACES_DIR_SUFFIX }
DirNameArguments ==
  { <<repoName, FALSE, <<>> >> : repoName \in RepoNames }
  \cup { <<repoName, TRUE, suffix>> : repoName \in RepoNames, suffix \in SuffixValues }
NameArguments == { <<s>> : s \in TextsOver({ "a", "/", "-" }, MaxNameLen) }

\* listing texts: up to MaxLines lines, each of one of the shapes below, separated by
\* newlines; the shapes are complete lines of `jj workspace list`, lines with more or less
\* whitespace, and lines without a name, without a colon or without a change id
MaxLines == 3
LineShapes ==
  { <<>>,
    <<"a">>,
    <<"a", ":">>,
    <<"a", ":", " ", "k", " ", "c">>,
    <<"a", ":", "k">>,
    <<" ", "a", " ", ":", " ", " ", "m", "\t", "c">>,
    <<"b", ":", " ", "n", ":", "c">>,
    <<":", " ", "k">>,
    <<" ", ":", " ", "k">> }
RECURSIVE TextsOfLines(_)
TextsOfLines(n) ==
  IF n = 1 THEN LineShapes
  ELSE TextsOfLines(n - 1)
       \cup { s \o <<"\n">> \o line : s \in TextsOfLines(n - 1), line \in LineShapes }
ListingTexts == TextsOfLines(MaxLines)
ListingArguments == { <<output>> : output \in ListingTexts }
TargetNames == { <<"a">>, <<"b">>, <<"k">> }
ChangeIdArguments ==
  { <<output, workspaceName>> : output \in ListingTexts, workspaceName \in TargetNames }

\* a function of utils.ts, its arguments, and what it returned once it has been applied
Application(fn, args, done, result) ==
  [fn |-> fn, args |-> args, done |-> done, result |-> result]
Pending(fn, arguments) == { Application(fn, args, FALSE, <<>>) : args \in arguments }

InitText ==
  /\ dirs = <<>>
  /\ containerExists = FALSE
  /\ registry = { DEFAULT_WORKSPACE_NAME }
  /\ config = DefaultConfig
  /\ last = NoInvocation
  /\ hist = NoSummary
  /\ probe \in Pending("getWorkspacesDirName", DirNameArguments)
               \cup Pending("normalizeWorkspaceName", NameArguments)
               \cup Pending("parseJjWorkspaceList", ListingArguments)
               \cup Pending("getChangeIdFromWorkspaceList", ChangeIdArguments)

Returned(result) ==
  /\ probe' = Application(probe.fn, probe.args, TRUE, result)
  /\ UNCHANGED <<dirs, containerExists, registry, config, last, hist>>

GetWorkspacesDirName ==
  /\ probe.fn = "getWorkspacesDirName" /\ ~probe.done
  /\ Returned(getWorkspacesDirName(probe.args[1], probe.args[2], probe.args[3]))
NormalizeWorkspaceName ==
  /\ probe.fn = "normalizeWorkspaceName" /\ ~probe.done
  /\ Returned(normalizeWorkspaceName(probe.args[1]))
ParseJjWorkspaceList ==
  /\ probe.fn = "parseJjWorkspaceList" /\ ~probe.done
  /\ Returned(parseJjWorkspaceList(probe.args[1]))
GetChangeIdFromWorkspaceList ==
  /\ probe.fn = "getChangeIdFromWorkspaceList" /\ ~probe.done
  /\ Returned(getChangeIdFromWorkspaceList(probe.args[1], probe.args[2]))

NextText ==
  \/ GetWorkspacesDirName
  \/ NormalizeWorkspaceName
  \/ ParseJjWorkspaceList
  \/ GetChangeIdFromWorkspaceList

SpecText == InitText /\ [][NextText]_vars

----------------------------------------------------------------------------
\* Properties

\* every directory inside the repository resolves a workspace name to the same path
PathOf(normalizedName) == join(ContainerOnDisk, normalizedName)
InRepository(inv) == inv.cwd # OutsideDir
FoundDirectory(inv, normalizedName) ==
  InRepository(inv) /\ normalizedName \in DOMAIN inv.before.dirs
ResolvesToPathOf ==
  \A cwd \in Cwds \ { OutsideDir }, name \in Names :
    getWorkspacePath(cwd, normalizeWorkspaceName(name), FALSE, <<>>)
      = Ok(PathOf(normalizeWorkspaceName(name)))

CallsNamed(inv, cmds) == SelectSeq(inv.calls, LAMBDA c : c.cmd \in cmds)
Failed(inv, error) == ~inv.outcome.ok /\ inv.outcome.error = error
LeftUntouched(inv) ==
  /\ dirs = inv.before.dirs
  /\ containerExists = inv.before.containerExists
  /\ registry = inv.before.registry

\* C1: removing the reserved name "default" fails with CannotRemoveDefault whatever the
\* directories on disk and the tool's registry are, without any external command having
\* been run and without any change to the filesystem.
C1_RemoveDefaultRefused ==
  (last.op = "rm" /\ last.args[1] = DEFAULT_WORKSPACE_NAME) =>
    /\ Failed(last, "CannotRemoveDefaultWorkspaceError")
    /\ last.calls = <<>>
    /\ LeftUntouched(last)

C1_Witness ==
  /\ last.op = "rm"
  /\ last.args[1] = DEFAULT_WORKSPACE_NAME
  /\ Failed(last, "CannotRemoveDefaultWorkspaceError")
  /\ DOMAIN dirs # {}
  /\ Cardinality(registry) > 1

\* C2: creating a workspace whose resolved path is already on disk fails with
\* AlreadyExists and runs no external command at all.
C2_CreateExistingRefused ==
  (last.op = "new" /\ FoundDirectory(last, normalizeWorkspaceName(last.args[1]))) =>
    /\ Failed(last, "WorkspaceExistsError")
    /\ last.outcome.detail = normalizeWorkspaceName(last.args[1])
    /\ last.calls = <<>>
    /\ LeftUntouched(last)

C2_Witness ==
  /\ last.op = "new"
  /\ FoundDirectory(last, normalizeWorkspaceName(last.args[1]))
  /\ Failed(last, "WorkspaceExistsError")
  /\ config.postCreateCommands # <<>>

AddExited(inv) == CallsNamed(inv, { "jj workspace add" })

\* C3: when `jj workspace add` exits non-zero, create fails with the external-tool error
\* for "create workspace" carrying the tool's stderr, and neither a configured file is
\* copied nor a post-create command run.
C3_AddFailureAborts ==
  (last.op = "new" /\ AddExited(last) # <<>> /\ AddExited(last)[1].exitCode # 0) =>
    /\ Failed(last, "JujutsuCommandError")
    /\ last.outcome.operation = "create workspace"
    /\ last.outcome.detail = StdErr
    /\ CallsNamed(last, { "cp", "cp -r", "spawn" }) = <<>>
    /\ last.calls[Len(last.calls)].cmd = "jj workspace add"

C3_Witness ==
  /\ last.op = "new"
  /\ AddExited(last) # <<>>
  /\ AddExited(last)[1].exitCode # 0
  /\ Failed(last, "JujutsuCommandError")
  /\ config.copyFiles # <<>>
  /\ config.postCreateCommands # <<>>

Spawned(inv) == CallsNamed(inv, { "spawn" })

\* C4: once the workspace is added, every configured post-create command is run, in
\* order and in the new workspace, whichever of them exit non-zero, and create succeeds.
C4_PostCreateFailuresTolerated ==
  (last.op = "new" /\ AddExited(last) # <<>> /\ AddExited(last)[1].exitCode = 0) =>
    /\ last.outcome.ok
    /\ Len(Spawned(last)) = Len(config.postCreateCommands)
    /\ \A i \in DOMAIN config.postCreateCommands :
         /\ Spawned(last)[i].words = split(config.postCreateCommands[i], " ")
         /\ Spawned(last)[i].cwd = PathOf(normalizeWorkspaceName(last.args[1]))
    /\ Report(last) = "Created workspace"

C4_Witness ==
  /\ last.op = "new"
  /\ last.outcome.ok
  /\ Len(Spawned(last)) >= 2
  /\ Spawned(last)[1].exitCode # 0
  /\ Spawned(last)[2].exitCode = 0

ForgetExited(inv) == CallsNamed(inv, { "jj workspace forget" })

\* C5: when `jj workspace forget` exits non-zero in remove of a non-default name, the
\* failure is only warned about: the workspace directory, if it was there, is still
\* deleted, and remove reports success.
C5_ForgetFailureTolerated ==
  (last.op = "rm" /\ ForgetExited(last) # <<>> /\ ForgetExited(last)[1].exitCode # 0) =>
    LET normalizedName == normalizeWorkspaceName(last.args[1])
        deletions == CallsNamed(last, { "rm -rf" })
    IN  /\ last.outcome.ok
        /\ Warned(last)
        /\ Report(last) = "Removed workspace"
        /\ FoundDirectory(last, normalizedName) =>
             /\ Len(deletions) = 1
             /\ deletions[1].paths = << PathOf(normalizedName) >>
             /\ deletions[1].exitCode = 0 => normalizedName \notin DOMAIN dirs
        /\ ~FoundDirectory(last, normalizedName) => deletions = <<>>

C5_Witness ==
  /\ last.op = "rm"
  /\ ForgetExited(last) # <<>>
  /\ ForgetExited(last)[1].exitCode # 0
  /\ FoundDirectory(last, normalizeWorkspaceName(last.args[1]))
  /\ normalizeWorkspaceName(last.args[1]) \notin DOMAIN dirs
  /\ last.outcome.ok

LinesFor(inv, normalizedName) ==
  SelectSeq(inv.out, LAMBDA l : l.words # <<>> /\ l.words[1] = normalizedName)

\* C6: a list that follows a successful create shows the created name as present, with
\* its resolved path; a list that follows the removal of the workspace just created, in
\* which the tool forgot it, does not show the name at all.
C6_CreateListRemoveList ==
  (last.op = "list" /\ last.outcome.ok /\ hist.ok) =>
    /\ hist.op = "new" =>
         /\ Len(LinesFor(last, hist.name)) = 1
         /\ LinesFor(last, hist.name)[1].words = << hist.name >>
         /\ LinesFor(last, hist.name)[1].paths = << PathOf(hist.name) >>
    /\ (hist.op = "rm" /\ hist.created /\ ~hist.warned) =>
         LinesFor(last, hist.name) = <<>>

C6_Witness ==
  /\ last.op = "list"
  /\ last.outcome.ok
  /\ hist.op = "rm"
  /\ hist.ok
  /\ hist.created
  /\ ~hist.warned
  /\ hist.name = << "a", "-", "b" >>
  /\ LinesFor(last, hist.name) = <<>>

ForgotNothing(inv) ==
  /\ inv.out = << NothingToDo >>
  /\ ForgetExited(inv) = <<>>

Stale(inv) ==
  SelectSeq(Listing(inv.before.registry),
            LAMBDA ws : ws # DEFAULT_WORKSPACE_NAME /\ ~FoundDirectory(inv, ws))

\* C8: a clean that completes has asked the tool to forget exactly the listed workspaces
\* that are not the default one and whose directory was missing, each once and in the
\* listed order, whatever the forget calls exited with.
C8_CleanForgetsExactlyStale ==
  (last.op = "clean" /\ last.outcome.ok) =>
    /\ Len(ForgetExited(last)) = Len(Stale(last))
    /\ \A i \in DOMAIN Stale(last) : ForgetExited(last)[i].words = << Stale(last)[i] >>

C8_Witness ==
  /\ last.op = "clean"
  /\ last.outcome.ok
  /\ Len(ForgetExited(last)) = 2
  /\ ForgetExited(last)[1].exitCode # 0
  /\ ForgetExited(last)[2].exitCode = 0

\* C9: rename fails with NotFound when the old workspace directory is missing, and
\* otherwise with AlreadyExists when the new one is there; in both cases no external
\* command is run.
C9_RenameChecks ==
  (last.op = "rename" /\ InRepository(last)) =>
    LET normalizedOldName == normalizeWorkspaceName(last.args[1])
        normalizedNewName == normalizeWorkspaceName(last.args[2])
    IN  /\ ~FoundDirectory(last, normalizedOldName) =>
             /\ Failed(last, "WorkspaceNotFoundError")
             /\ last.outcome.detail = normalizedOldName
             /\ last.calls = <<>>
        /\ (FoundDirectory(last, normalizedOldName)
            /\ FoundDirectory(last, normalizedNewName)) =>
             /\ Failed(last, "WorkspaceExistsError")
             /\ last.outcome.detail = normalizedNewName
             /\ last.calls = <<>>

C9_Witness ==
  /\ last.op = "rename"
  /\ ~FoundDirectory(last, normalizeWorkspaceName(last.args[1]))
  /\ FoundDirectory(last, normalizeWorkspaceName(last.args[2]))
  /\ Failed(last, "WorkspaceNotFoundError")

\* C10: a rename that passes its checks first runs `jj workspace rename` with the new
\* normalized name from the OLD workspace directory; when that exits non-zero the rename
\* fails with the external-tool error, no mv is run and the directory stays where it was.
C10_RenameRunsToolInOldDirectory ==
  (/\ last.op = "rename"
   /\ FoundDirectory(last, normalizeWorkspaceName(last.args[1]))
   /\ ~FoundDirectory(last, normalizeWorkspaceName(last.args[2]))) =>
    LET normalizedOldName == normalizeWorkspaceName(last.args[1])
        normalizedNewName == normalizeWorkspaceName(last.args[2])
    IN  /\ last.calls # <<>>
        /\ last.calls[1].cmd = "jj workspace rename"
        /\ last.calls[1].words = << normalizedNewName >>
        /\ last.calls[1].cwd = PathOf(normalizedOldName)
        /\ last.calls[1].exitCode # 0 =>
             /\ Failed(last, "JujutsuCommandError")
             /\ last.outcome.operation = "rename workspace"
             /\ Len(last.calls) = 1
             /\ dirs = last.before.dirs
        /\ last.calls[1].exitCode = 0 =>
             /\ Len(last.calls) = 2
             /\ last.calls[2].cmd = "mv"
             /\ last.calls[2].paths = << PathOf(normalizedOldName), PathOf(normalizedNewName) >>

C10_Witness ==
  /\ last.op = "rename"
  /\ last.calls # <<>>
  /\ last.calls[1].exitCode # 0
  /\ last.calls[1].cwd = PathOf(normalizeWorkspaceName(last.args[1]))
  /\ last.cwd # last.calls[1].cwd
  /\ Failed(last, "JujutsuCommandError")
  /\ normalizeWorkspaceName(last.args[1]) \in DOMAIN dirs

\* C11: whenever rename reports success, the workspace directory is at the new path and
\* no longer at the old one, so that a failed mv is never reported as a rename.
C11_RenameSuccessMovesDirectory ==
  (last.op = "rename" /\ last.outcome.ok) =>
    /\ normalizeWorkspaceName(last.args[2]) \in DOMAIN dirs
    /\ normalizeWorkspaceName(last.args[1]) \notin DOMAIN dirs

\* C12: a rename whose old name is the reserved name "default", started inside the
\* repository, fails with CannotRemoveDefault and runs neither `jj workspace rename` nor mv.
C12_RenameDefaultRefused ==
  (last.op = "rename" /\ last.args[1] = DEFAULT_WORKSPACE_NAME /\ InRepository(last)) =>
    /\ Failed(last, "CannotRemoveDefaultWorkspaceError")
    /\ CallsNamed(last, { "jj workspace rename", "mv" }) = <<>>

\* C13: the reserved name "default" is never used as an ordinary workspace name: no create
\* and no rename runs `jj workspace add` or `jj workspace rename` with the name "default",
\* and no directory is ever at <container>/default.
C13_DefaultNeverOrdinaryName ==
  /\ last.op \in { "new", "rename" } =>
       \A i \in 1..Len(last.calls) :
         last.calls[i].cmd \in { "jj workspace add", "jj workspace rename" } =>
           last.calls[i].words[1] # DEFAULT_WORKSPACE_NAME
  /\ DEFAULT_WORKSPACE_NAME \notin DOMAIN dirs

PathLine(path) == << Line("log", "", <<>>, <<path>>) >>

\* C14: go with the reserved name "default" prints the default workspace's root whether
\* or not any workspace directory exists; with any other name it prints the workspace path
\* exactly when that directory is on disk and fails with NotFound otherwise; in every case
\* it runs no command and changes nothing.
C14_GoPrintsPathOrNotFound ==
  (last.op = "go" /\ InRepository(last)) =>
    /\ last.args[1] = DEFAULT_WORKSPACE_NAME =>
         last.outcome.ok /\ last.out = PathLine(DefaultRoot)
    /\ (last.args[1] # DEFAULT_WORKSPACE_NAME
        /\ FoundDirectory(last, normalizeWorkspaceName(last.args[1]))) =>
         last.outcome.ok /\ last.out = PathLine(PathOf(normalizeWorkspaceName(last.args[1])))
    /\ (last.args[1] # DEFAULT_WORKSPACE_NAME
        /\ ~FoundDirectory(last, normalizeWorkspaceName(last.args[1]))) =>
         Failed(last, "WorkspaceNotFoundError") /\ last.out = <<>>
    /\ last.calls = <<>>
    /\ LeftUntouched(last)

\* go default from inside a secondary workspace, and go to a workspace that is on disk
C14_Witness ==
  /\ last.op = "go"
  /\ last.outcome.ok
  /\ last.before.dirs # <<>>
  /\ last.cwd # DefaultSubDir
  /\ last.args[1] = DEFAULT_WORKSPACE_NAME

\* C15: in create and copy, every configured copy-file entry is taken from the default
\* workspace's root and copied into the target workspace directory, also when the command
\* is started inside a secondary workspace.
C15_CopiesFromDefaultRoot ==
  last.op \in { "new", "copy" } =>
    /\ \A i \in 1..Len(last.calls) :
         last.calls[i].cmd \in { "cp", "cp -r" } =>
           /\ dirname(last.calls[i].paths[1]) = DefaultRoot
           /\ last.calls[i].paths[2] = PathOf(normalizeWorkspaceName(last.args[1]))
    /\ \A j \in 1..Len(last.out) :
         last.out[j].msg = "Source does not exist" =>
           dirname(last.out[j].paths[1]) = DefaultRoot

SuffixedPathOf(suffix, normalizedName) ==
  join(join(dirname(DefaultRoot), basename(DefaultRoot) \o suffix), normalizedName)

\* C16: with a non-empty workspacesDirSuffix S in the configuration, the path a command
\* acts on is <parent of default root>/<basename of default root>S/<normalized name>:
\* the path create hands to `jj workspace add`, the path go prints, the paths rename moves.
C16_ConfiguredSuffixDeterminesPath ==
  (config.workspacesDirSuffix # NoSuffix /\ last.op \in { "new", "go", "rename" }) =>
    /\ \A i \in 1..Len(last.calls) :
         /\ last.calls[i].cmd = "jj workspace add" =>
              last.calls[i].paths[1]
                = SuffixedPathOf(config.workspacesDirSuffix,
                                 normalizeWorkspaceName(last.args[1]))
         /\ last.calls[i].cmd = "mv" =>
              last.calls[i].paths
                = << SuffixedPathOf(config.workspacesDirSuffix,
                                    normalizeWorkspaceName(last.args[1])),
                     SuffixedPathOf(config.workspacesDirSuffix,
                                    normalizeWorkspaceName(last.args[2])) >>
    /\ (last.op = "go" /\ last.outcome.ok /\ last.args[1] # DEFAULT_WORKSPACE_NAME) =>
         last.out = PathLine(SuffixedPathOf(config.workspacesDirSuffix,
                                            normalizeWorkspaceName(last.args[1])))

InSecondaryWorkspace(inv) ==
  getRepoRoot(inv.cwd).ok /\ getRepoRoot(inv.cwd).path # DefaultRoot

\* C17: use fails with ValidationError when the name is missing or is the reserved name
\* "default", and with NotDefaultWorkspace when it is given any other name while started
\* inside a secondary workspace; in each of these failures no command has been run.
C17_UseRefusals ==
  last.op = "use" =>
    /\ last.args[1] \in { <<>>, DEFAULT_WORKSPACE_NAME } =>
         Failed(last, "ValidationError") /\ last.calls = <<>>
    /\ (last.args[1] \notin { <<>>, DEFAULT_WORKSPACE_NAME } /\ InSecondaryWorkspace(last)) =>
         Failed(last, "NotDefaultWorkspaceError") /\ last.calls = <<>>

\* use of a registered workspace, started inside a secondary workspace
C17_Witness ==
  /\ last.op = "use"
  /\ InSecondaryWorkspace(last)
  /\ last.args[1] \in last.before.registry \ { DEFAULT_WORKSPACE_NAME }

\* C18: this started in the default workspace fails with ValidationError without running
\* `jj edit`; started in a secondary workspace it runs `jj edit` only with the revision id
\* the listing shows for the current workspace's name, and only in the default
\* workspace's root.
C18_ThisEditsDefaultToCurrent ==
  last.op = "this" =>
    /\ getRepoRoot(last.cwd) = Ok(DefaultRoot) =>
         Failed(last, "ValidationError") /\ CallsNamed(last, { "jj edit" }) = <<>>
    /\ \A i \in 1..Len(last.calls) :
         last.calls[i].cmd = "jj edit" =>
           /\ InSecondaryWorkspace(last)
           /\ basename(getRepoRoot(last.cwd).path) \in last.before.registry
           /\ last.calls[i].words = << ChangeIdOf(basename(getRepoRoot(last.cwd).path)) >>
           /\ last.calls[i].cwd = DefaultRoot

\* this started in a secondary workspace has run `jj edit`
C18_Witness ==
  /\ last.op = "this"
  /\ InSecondaryWorkspace(last)
  /\ CallsNamed(last, { "jj edit" }) # <<>>

\* the ancestors of a directory, itself included and the filesystem root excluded, and
\* those of them that hold .jj
Ancestors(dir) == { SubSeq(dir, 1, n) : n \in 1..Len(dir) }
MarkedAncestors(tree, dir) == { a \in Ancestors(dir) : join(a, JJ_DIR) \in DOMAIN tree }
Nearest(S) == CHOOSE a \in S : \A b \in S : Len(b) <= Len(a)
EntryAt(tree, p) == IF p \in DOMAIN tree THEN tree[p] ELSE NoEntry

\* C19: getRepoRoot returns the nearest ancestor of the start directory (itself included,
\* "/" excluded) that contains .jj, and fails with NotJujutsuRepository exactly when there
\* is no such ancestor, which includes every start at "/".
C19_NearestMarkedAncestor ==
  probe.fn = "getRepoRoot" =>
    IF MarkedAncestors(probe.tree, probe.startDir) = {}
    THEN ~probe.result.ok /\ probe.result.error = "NotJujutsuRepositoryError"
    ELSE probe.result = Ok(Nearest(MarkedAncestors(probe.tree, probe.startDir)))

\* two ancestors hold .jj and the start directory itself does not
C19_Witness ==
  /\ probe.fn = "getRepoRoot"
  /\ Cardinality(MarkedAncestors(probe.tree, probe.startDir)) >= 2
  /\ probe.startDir \notin MarkedAncestors(probe.tree, probe.startDir)
  /\ probe.result.ok

\* C20: getDefaultWorkspacePath returns the located root itself when .jj/repo there is a
\* directory; when it is a file, the path left after dropping the last two segments of
\* the file's trimmed content; and it fails with a plain Error when .jj/repo is missing.
C20_DefaultRootFromRepoEntry ==
  (probe.fn = "getDefaultWorkspacePath"
   /\ MarkedAncestors(probe.tree, probe.startDir) # {}) =>
    LET root == Nearest(MarkedAncestors(probe.tree, probe.startDir))
        entry == EntryAt(probe.tree, RepoEntryOf(root))
        segments == segmentsOfText(trim(entry.content))
    IN  /\ entry.kind = "dir" => probe.result = Ok(root)
        /\ entry.kind = "file" =>
             probe.result = Ok(SubSeq(segments, 1, Len(segments) - 2))
        /\ entry.kind = "none" => ~probe.result.ok /\ probe.result.error = "Error"

\* .jj/repo is a file whose content is padded with whitespace, and the path it yields is
\* not the located root
C20_Witness ==
  /\ probe.fn = "getDefaultWorkspacePath"
  /\ MarkedAncestors(probe.tree, probe.startDir) # {}
  /\ LET entry == EntryAt(probe.tree,
                          RepoEntryOf(Nearest(MarkedAncestors(probe.tree, probe.startDir))))
     IN  entry.kind = "file" /\ trim(entry.content) # entry.content
  /\ probe.result = Ok(<< <<"h">>, <<"q">> >>)

\* the suffix arguments a caller may pass: none, a non-empty one, the empty one
SuffixArguments ==
  { [given |-> FALSE, suffix |-> <<>>], [given |-> TRUE, suffix |-> CustomSuffix],
    [given |-> TRUE, suffix |-> <<>>] }

\* C21: for a fixed suffix and name, getWorkspacesDir and getWorkspacePath give the same
\* result from a directory inside the default workspace and from a directory inside any
\* secondary workspace on disk, whose .jj/repo file points at the default workspace.
C21_ResolutionIndependentOfWorkspace ==
  \A cwd \in Cwds \ { OutsideDir }, name \in Names, s \in SuffixArguments :
    /\ getWorkspacesDir(cwd, s.given, s.suffix)
         = getWorkspacesDir(DefaultSubDir, s.given, s.suffix)
    /\ getWorkspacePath(cwd, normalizeWorkspaceName(name), s.given, s.suffix)
         = getWorkspacePath(DefaultSubDir, normalizeWorkspaceName(name), s.given, s.suffix)
    /\ getWorkspacesDir(cwd, s.given, s.suffix).ok

\* a command started inside a secondary workspace has resolved a workspace path
C21_Witness ==
  /\ last.op = "go"
  /\ last.outcome.ok
  /\ last.args[1] # DEFAULT_WORKSPACE_NAME
  /\ getRepoRoot(last.cwd).ok
  /\ getRepoRoot(last.cwd).path # DefaultRoot
  /\ isPointerFile(RepoEntryOf(getRepoRoot(last.cwd).path))

\* C22: getWorkspacesDirName tells a suffix that was passed, the empty one included, from
\* one that was not: without a suffix the result is the repository name followed by the
\* built-in suffix, with a suffix it is the repository name followed by exactly that
\* suffix, so with the empty suffix it is the repository name itself.
C22_EmptySuffixIsASuffix ==
  (probe.fn = "getWorkspacesDirName" /\ probe.done) =>
    /\ ~probe.args[2] => probe.result = probe.args[1] \o WORKSPACES_DIR_SUFFIX
    /\ probe.args[2] => probe.result = probe.args[1] \o probe.args[3]
    /\ (probe.args[2] /\ probe.args[3] = <<>>) => probe.result = probe.args[1]

\* the empty suffix passed with a non-empty repository name
C22_Witness ==
  /\ probe.fn = "getWorkspacesDirName"
  /\ probe.done
  /\ probe.args[2]
  /\ probe.args[3] = <<>>
  /\ probe.args[1] # <<>>
  /\ probe.result = probe.args[1]

\* C23: normalizeWorkspaceName is defined for every name; its result has the length of the
\* name, holds "-" wherever the name holds "/" and the name's character everywhere else,
\* so it holds no "/", and normalizing it again changes nothing.
C23_NormalizeIdempotent ==
  (probe.fn = "normalizeWorkspaceName" /\ probe.done) =>
    /\ Len(probe.result) = Len(probe.args[1])
    /\ \A i \in 1..Len(probe.result) :
         /\ probe.result[i] # "/"
         /\ probe.args[1][i] = "/" => probe.result[i] = "-"
         /\ probe.args[1][i] # "/" => probe.result[i] = probe.args[1][i]
    /\ normalizeWorkspaceName(probe.result) = probe.result

\* a name with two slashes and another character
C23_Witness ==
  /\ probe.fn = "normalizeWorkspaceName"
  /\ probe.done
  /\ Cardinality({ i \in 1..Len(probe.args[1]) : probe.args[1][i] = "/" }) = 2
  /\ Len(probe.args[1]) = 3
  /\ probe.result # probe.args[1]

\* the text of a line before its first colon, trimmed; empty when the line has no colon
NameBeforeColon(line) ==
  IF \A i \in 1..Len(line) : line[i] # ":" THEN <<>>
  ELSE trim(SubSeq(line, 1,
                   (CHOOSE i \in 1..Len(line) :
                      line[i] = ":" /\ \A j \in 1..(i - 1) : line[j] # ":") - 1))
RECURSIVE NamesOfLines(_)
NamesOfLines(lines) ==
  IF lines = <<>> THEN <<>>
  ELSE (IF NameBeforeColon(Head(lines)) = <<>> THEN <<>>
        ELSE << NameBeforeColon(Head(lines)) >>)
       \o NamesOfLines(Tail(lines))

\* C24: parseJjWorkspaceList returns, in line order, the name of every line that has a
\* non-empty name before its first colon and drops every other line, so that every name
\* it returns is non-empty, also when the text before a colon is only whitespace.
C24_ParseReturnsNonEmptyNames ==
  (probe.fn = "parseJjWorkspaceList" /\ probe.done) =>
    /\ probe.result = NamesOfLines(split(probe.args[1], "\n"))
    /\ \A i \in 1..Len(probe.result) : probe.result[i] # <<>>

\* the text of a line after its first colon
AfterColon(line) ==
  SubSeq(line,
         (CHOOSE i \in 1..Len(line) : line[i] = ":" /\ \A j \in 1..(i - 1) : line[j] # ":") + 1,
         Len(line))
\* the first run of characters other than whitespace; empty when there is none
FirstToken(s) ==
  IF \A i \in 1..Len(s) : IsSpace(s[i]) THEN <<>>
  ELSE LET from == CHOOSE i \in 1..Len(s) :
                     ~IsSpace(s[i]) /\ \A j \in 1..(i - 1) : IsSpace(s[j])
           to == CHOOSE i \in from..Len(s) :
                   /\ \A j \in from..i : ~IsSpace(s[j])
                   /\ i = Len(s) \/ IsSpace(s[i + 1])
       IN  SubSeq(s, from, to)
LinesNamed(lines, name) == SelectSeq(lines, LAMBDA line : NameBeforeColon(line) = name)

\* C25: getChangeIdFromWorkspaceList returns the first whitespace-separated token after the
\* colon of the first line whose trimmed name is the given name, and nothing when no line
\* has that name, when the listing is empty, or when nothing but whitespace follows the
\* colon of that line.
C25_ChangeIdIsFirstToken ==
  (probe.fn = "getChangeIdFromWorkspaceList" /\ probe.done) =>
    LET named == LinesNamed(split(probe.args[1], "\n"), probe.args[2])
    IN  /\ named = <<>> => probe.result = <<>>
        /\ named # <<>> => probe.result = FirstToken(AfterColon(Head(named)))

\* the name is on the second line, written with whitespace around it, and the change id
\* is followed by more text
C25_Witness ==
  /\ probe.fn = "getChangeIdFromWorkspaceList"
  /\ probe.done
  /\ probe.args[2] = <<"a">>
  /\ probe.args[1] = <<"b", ":", " ", "n", ":", "c", "\n">>
                       \o <<" ", "a", " ", ":", " ", " ", "m", "\t", "c">>
  /\ probe.result = <<"m">>

IndicesOf(inv, cmds) == { i \in 1..Len(inv.calls) : inv.calls[i].cmd \in cmds }
Copied(inv) ==
  LET copies == CallsNamed(inv, { "cp", "cp -r" })
  IN  [i \in 1..Len(copies) |-> basename(copies[i].paths[1])]
InOrderOf(picked, all) ==
  picked = SelectSeq(all, LAMBDA x : \E i \in 1..Len(picked) : picked[i] = x)

RECURSIVE WordsOf(_)
WordsOf(s) ==
  IF FirstToken(s) = <<>> THEN <<>>
  ELSE << FirstToken(s) >>
       \o WordsOf(SubSeq(trimStart(s), Len(FirstToken(s)) + 1, Len(trimStart(s))))

\* C27: in a create, every configured post-create command is run as its first word with
\* its other words as arguments, none of them empty however many spaces or tabs separate
\* the words, and with the new workspace's directory as working directory.
C27_CommandSplitOnWhitespace ==
  last.op = "new" =>
    LET commands == CallsNamed(last, { "spawn" })
    IN  \A i \in 1..Len(commands) :
          /\ commands[i].words = WordsOf(config.postCreateCommands[i])
          /\ \A k \in 1..Len(commands[i].words) : commands[i].words[k] # <<>>
          /\ commands[i].cwd = PathOf(normalizeWorkspaceName(last.args[1]))

ForgetsThat(inv, exitedZero) ==
  LET picked == SelectSeq(ForgetExited(inv), LAMBDA c : (c.exitCode = 0) = exitedZero)
  IN  [i \in 1..Len(picked) |-> picked[i].words[1]]
WarnedNames(inv) ==
  LET warnings == SelectSeq(inv.out, LAMBDA l : l.level = "warn")
  IN  [i \in 1..Len(warnings) |-> warnings[i].words[1]]

\* C28: a clean that completes prints the list of forgotten workspaces exactly when at
\* least one `jj workspace forget` exited zero, and the list holds the names of those; when
\* stale workspaces were found and every forget failed, it warns once per failed name and
\* then prints "No stale workspaces found", as it does when nothing was stale.
C28_CleanReport ==
  (last.op = "clean" /\ last.outcome.ok) =>
    /\ WarnedNames(last) = ForgetsThat(last, FALSE)
    /\ ForgetsThat(last, TRUE) # <<>> <=> Report(last) = "Forgotten workspaces:"
    /\ ForgetsThat(last, TRUE) # <<>> =>
         last.out[Len(last.out)].words = ForgetsThat(last, TRUE)
    /\ ForgetsThat(last, TRUE) = <<>> => last.out[Len(last.out)] = NothingToDo
    /\ Len(last.out) = Len(WarnedNames(last)) + 1

\* two stale workspaces were found and both forget calls failed
C28_Witness ==
  /\ last.op = "clean"
  /\ last.outcome.ok
  /\ Len(ForgetsThat(last, FALSE)) = 2
  /\ ForgetsThat(last, TRUE) = <<>>
  /\ last.out[Len(last.out)] = NothingToDo

\* C29: remove of a name other than "default" never fails with NotFound: when the
\* workspace directory is missing, as it is for a second remove of the same name, it
\* still runs `jj workspace forget` exactly once, deletes nothing and reports success,
\* whatever forget exited with.
C29_RemoveMissingSucceeds ==
  (last.op = "rm" /\ NameOf(last) # DEFAULT_WORKSPACE_NAME /\ InRepository(last)) =>
    /\ ~Failed(last, "WorkspaceNotFoundError")
    /\ ~FoundDirectory(last, NameOf(last)) =>
         /\ last.outcome.ok
         /\ Len(ForgetExited(last)) = 1
         /\ ForgetExited(last)[1].words = << NameOf(last) >>
         /\ CallsNamed(last, { "rm -rf" }) = <<>>
         /\ dirs = last.before.dirs

\* the second of two removes of the same name, with a forget that failed
C29_Witness ==
  /\ last.op = "rm"
  /\ hist.op = "rm"
  /\ hist.ok
  /\ hist.name = NameOf(last)
  /\ ~FoundDirectory(last, NameOf(last))
  /\ InRepository(last)
  /\ ForgetExited(last)[1].exitCode # 0
  /\ last.outcome.ok

\* C30: a rename whose two names normalize to the same name runs neither
\* `jj workspace rename` nor mv: it fails with NotFound when the directory of that name is
\* missing and with AlreadyExists when it is there.
C30_RenameToSameName ==
  (last.op = "rename" /\ InRepository(last)
   /\ normalizeWorkspaceName(last.args[1]) = normalizeWorkspaceName(last.args[2])) =>
    /\ last.calls = <<>>
    /\ LeftUntouched(last)
    /\ ~FoundDirectory(last, NameOf(last)) => Failed(last, "WorkspaceNotFoundError")
    /\ FoundDirectory(last, NameOf(last)) => Failed(last, "WorkspaceExistsError")

\* rename a/b a-b with the directory a-b on disk
C30_Witness ==
  /\ last.op = "rename"
  /\ InRepository(last)
  /\ last.args[1] # last.args[2]
  /\ normalizeWorkspaceName(last.args[1]) = normalizeWorkspaceName(last.args[2])
  /\ FoundDirectory(last, NameOf(last))
  /\ Failed(last, "WorkspaceExistsError")

====
